---- MODULE Spec2Model ----
(***************************************************************************)
(* Hiking journal: the trip statistics of the trip page                    *)
(* (hiking-journal/js/trip.js), the shared helpers                         *)
(* (hiking-journal/js/utils.js) and the trip totals of the homepage        *)
(* (main.js: computeTripData, fetchDayStats).                              *)
(*                                                                         *)
(* Numbers.  Every JavaScript number of the program is an integer here:    *)
(*   - a day's distance is held in hundredths of a mile (so 14.2 mi is     *)
(*     1420 and an override such as 0.04 mi is representable);             *)
(*   - an elevation is held in whole metres (track) or whole feet (stats); *)
(*   - a latitude/longitude is held in 1e-4 degrees;                       *)
(*   - an instant is held in seconds, a duration in milliseconds.          *)
(* Math.round(x) is floor(x + 1/2), which on these integers is exact.      *)
(*                                                                         *)
(* JSON values.  A value that may be null/absent is a record with a tag    *)
(* field t, so that every comparison is between records of one shape.      *)
(***************************************************************************)
EXTENDS Integers, Sequences, FiniteSets, TLC

VARIABLES
  pc,          \* position of initTripPage
  meta,        \* the parsed meta.json, once loaded
  dayFiles,    \* the day file list initTripPage works on
  fetchState,  \* per day: position of loadDayGeoJSON
  fetched,     \* per day: what the fetch of the day file delivered
  loadResult,  \* per day: the local `result` object of loadDayGeoJSON
  promiseValues, \* the values Promise.all has collected so far
  settled,     \* number of day promises settled so far
  dayResults,  \* the array initTripPage receives from loadAllDays
  text,        \* the text content of the page's elements
  pageError,   \* what showMetaError / showMapError put on the page
  dayTable,    \* the rows buildDayTable rendered
  mapLayers,   \* the day indices buildMap added a layer for
  legend,      \* the entries buildLegend rendered
  elCall,      \* a call of calcElapsedTime: arguments and returned string
  trCall,      \* a call of calcDistance / calcElevationGain on one track
  dyCall,      \* a call of extractCoords / loadDayGeoJSON on one day file
  homeCard     \* the homepage: what computeTripData returns for the trip

tripVars == <<pc, meta, dayFiles, fetchState, fetched, loadResult, promiseValues,
              settled, dayResults, text, pageError, dayTable, mapLayers, legend>>

vars == <<tripVars, elCall, trCall, dyCall, homeCard>>

(***************************************************************************)
(* Bounds of the model.                                                    *)
(***************************************************************************)
MaxDays == 3
MaxPts == 3
MaxFeatures == 3

(***************************************************************************)
(* JSON / JavaScript values.                                               *)
(***************************************************************************)
Num(n) == [t |-> "num", v |-> n]
NullNum == [t |-> "null", v |-> 0]
Str(s) == [t |-> "str", s |-> s]
NullStr == [t |-> "null", s |-> ""]

\* A value returned, or an exception thrown (msg is the Error's message).
Ret(x) == [raised |-> FALSE, val |-> x, msg |-> ""]
Raise(m) == [raised |-> TRUE, val |-> 0, msg |-> m]

\* Math.round on a rational n/d, d > 0 (a half rounds up).
MathRound(n, d) == (2 * n + d) \div (2 * d)

(***************************************************************************)
(* utils.js: haversineDistance, calcDistance, calcElevationGain.           *)
(* A coordinate is [lon, lat] or [lon, lat, ele]; an entry of a coordinate *)
(* array may also be JSON null.                                            *)
(***************************************************************************)
Pt(lon, lat, ele) == [t |-> "pt", lon |-> lon, lat |-> lat, ele |-> ele]
NullPt == [t |-> "null", lon |-> 0, lat |-> 0, ele |-> NullNum]

\* Earth radius 3958.8 mi times pi/180 is 69.0941 miles per degree: per
\* 1e-4 degree, in 1e-8 miles.
MilesPerUnitE8 == 690941

Abs(x) == IF x < 0 THEN -x ELSE x

\* Distance in 1e-4 miles.  Along a meridian (equal longitudes) the haversine
\* formula reduces to R * |dLat|; every track of the model lies on one.
haversineDistance(c1, c2) ==
  (Abs(c2.lat - c1.lat) * MilesPerUnitE8 + 5000) \div 10000

\* Reading index [1] or [2] of a null entry throws a TypeError.
NullReadMsg == "Cannot read properties of null"

RECURSIVE DistanceLoop(_, _, _)
DistanceLoop(coords, i, total) ==
  IF i > Len(coords) THEN Ret(total)
  ELSE IF coords[i - 1].t = "null" \/ coords[i].t = "null" THEN Raise(NullReadMsg)
  ELSE DistanceLoop(coords, i + 1, total + haversineDistance(coords[i - 1], coords[i]))

\* Variant: no `!coords` test, so reading .length of an absent array throws.
calcDistanceNoNullTest(coords) ==
  IF coords.t = "null" THEN Raise(NullReadMsg)
  ELSE IF Len(coords.a) < 2 THEN Ret(0)
  ELSE LET r == DistanceLoop(coords.a, 2, 0)
       IN IF r.raised THEN r ELSE Ret(MathRound(r.val, 1000) * 10)

\* coords: [t |-> "arr"/"null", a |-> sequence of points].  Result in
\* hundredths of a mile: Math.round(total * 10) / 10.
calcDistance(coords) ==
  IF coords.t = "null" \/ Len(coords.a) < 2 THEN Ret(0)
  ELSE LET r == DistanceLoop(coords.a, 2, 0)
       IN IF r.raised THEN r ELSE Ret(MathRound(r.val, 1000) * 10)

\* Variant: every elevation difference is added, descents included.
RECURSIVE GainLoopNet(_, _, _)
GainLoopNet(coords, i, gain) ==
  IF i > Len(coords) THEN Ret(gain)
  ELSE IF coords[i - 1].t = "null" \/ coords[i].t = "null" THEN Raise(NullReadMsg)
  ELSE LET prevEle == coords[i - 1].ele
           currEle == coords[i].ele
           diff == currEle.v - prevEle.v
       IN IF prevEle.t = "num" /\ currEle.t = "num"
          THEN GainLoopNet(coords, i + 1, gain + diff)
          ELSE GainLoopNet(coords, i + 1, gain)

\* Variant: a pair with a missing elevation starts the sum again from 0.
RECURSIVE GainLoopResetOnGap(_, _, _)
GainLoopResetOnGap(coords, i, gain) ==
  IF i > Len(coords) THEN Ret(gain)
  ELSE IF coords[i - 1].t = "null" \/ coords[i].t = "null" THEN Raise(NullReadMsg)
  ELSE LET prevEle == coords[i - 1].ele
           currEle == coords[i].ele
           diff == currEle.v - prevEle.v
       IN IF prevEle.t = "num" /\ currEle.t = "num"
          THEN GainLoopResetOnGap(coords, i + 1, IF diff > 0 THEN gain + diff ELSE gain)
          ELSE GainLoopResetOnGap(coords, i + 1, 0)

RECURSIVE GainLoop(_, _, _)
GainLoop(coords, i, gain) ==
  IF i > Len(coords) THEN Ret(gain)
  ELSE IF coords[i - 1].t = "null" \/ coords[i].t = "null" THEN Raise(NullReadMsg)
  ELSE LET prevEle == coords[i - 1].ele
           currEle == coords[i].ele
           diff == currEle.v - prevEle.v
       IN IF prevEle.t = "num" /\ currEle.t = "num" /\ diff > 0
          THEN GainLoop(coords, i + 1, gain + diff)
          ELSE GainLoop(coords, i + 1, gain)

\* Metres to feet is 3.28084 = 328084 / 100000; result in feet.
FeetPerMetreE5 == 328084

\* Variant: the gain is rounded to the nearest foot.
calcElevationGainToFoot(coords) ==
  IF coords.t = "null" \/ Len(coords.a) < 2 THEN Ret(0)
  ELSE LET r == GainLoop(coords.a, 2, 0)
       IN IF r.raised THEN r
          ELSE Ret(MathRound(r.val * FeetPerMetreE5, 100000))

calcElevationGain(coords) ==
  IF coords.t = "null" \/ Len(coords.a) < 2 THEN Ret(0)
  ELSE LET r == GainLoop(coords.a, 2, 0)
       IN IF r.raised THEN r
          ELSE Ret(MathRound(r.val * FeetPerMetreE5, 1000000) * 10)

(***************************************************************************)
(* utils.js: formatNumber, calcElapsedTime.                                *)
(* A JavaScript number that may be NaN is [nan, v].                        *)
(***************************************************************************)
JNum(n) == [nan |-> FALSE, v |-> n]
NaN == [nan |-> TRUE, v |-> 0]
JsMinus(a, b) == IF a.nan \/ b.nan THEN NaN ELSE JNum(a.v - b.v)
JsTimes(a, k) == IF a.nan THEN NaN ELSE JNum(a.v * k)
JsFloorDiv(a, k) == IF a.nan THEN NaN ELSE JNum(a.v \div k)
\* Variant: diffMs < 0.
JsLessThanZero(a) == ~a.nan /\ a.v < 0
JsLeqZero(a) == ~a.nan /\ a.v <= 0
JsTruthy(a) == ~a.nan /\ a.v # 0

\* A date string of meta.json: an ISO calendar date, absent (undefined), or a
\* string that is no date.  A time string: HH:mm or HH:mm:ss, absent, the
\* empty string, or a string that is no time.
DateOk(y, m, d) == [t |-> "ok", y |-> y, m |-> m, d |-> d]
UndefDate == [t |-> "undefined", y |-> 0, m |-> 0, d |-> 0]
BadDate == [t |-> "bad", y |-> 0, m |-> 0, d |-> 0]
TimeOk(h, mi, s) == [t |-> "ok", h |-> h, mi |-> mi, s |-> s]
UndefTime == [t |-> "undefined", h |-> 0, mi |-> 0, s |-> 0]
EmptyTime == [t |-> "empty", h |-> 0, mi |-> 0, s |-> 0]
BadTime == [t |-> "bad", h |-> 0, mi |-> 0, s |-> 0]

\* Days since 1970-01-01 of a calendar date (proleptic Gregorian).
DaysFromCivil(y, m, d) ==
  LET yy == IF m <= 2 THEN y - 1 ELSE y
      era == yy \div 400
      yoe == yy - era * 400
      mp == (m + 9) % 12
      doy == (153 * mp + 2) \div 5 + d - 1
      doe == yoe * 365 + yoe \div 4 - yoe \div 100 + doy
  IN era * 146097 + doe - 719468

\* startTime || '00:00'
OrMidnight(tm) == IF tm.t \in {"undefined", "empty"} THEN TimeOk(0, 0, 0) ELSE tm

\* new Date(`${date}T${time}`): the time value in seconds (the strings carry
\* no fraction of a second), or NaN for a string that is no date-time.  The
\* local time zone is taken to have one offset at both instants.
NewDate(date, tm) ==
  IF date.t = "ok" /\ tm.t = "ok"
  THEN JNum(DaysFromCivil(date.y, date.m, date.d) * 86400 + tm.h * 3600 + tm.mi * 60 + tm.s)
  ELSE NaN

\* The "unknown" sentinel: the em dash U+2014, written here in ASCII.
Dash == "--"
LessThanMinute == "< 1m"

RECURSIVE JoinSpace(_)
JoinSpace(parts) ==
  IF parts = <<>> THEN ""
  ELSE IF Len(parts) = 1 THEN parts[1]
  ELSE parts[1] \o " " \o JoinSpace(Tail(parts))

MsPerDay == 86400000
MsPerHour == 3600000
MsPerMinute == 60000

\* Variant: every component is pushed, zero or not.
PartAlways(n, unit) == <<ToString(n.v) \o unit>>

\* `${n}d`; the components pushed are non-zero numbers (never NaN).
Part(n, unit) == IF JsTruthy(n) THEN <<ToString(n.v) \o unit>> ELSE <<>>

calcElapsedTime(startDate, startTime, endDate, endTime) ==
  LET start == NewDate(startDate, OrMidnight(startTime))
      end == NewDate(endDate, OrMidnight(endTime))
      diffMs == JsTimes(JsMinus(end, start), 1000)
  IN IF JsLeqZero(diffMs) THEN Dash
     ELSE LET days == JsFloorDiv(diffMs, MsPerDay)
              diff1 == JsMinus(diffMs, JsTimes(days, MsPerDay))
              hours == JsFloorDiv(diff1, MsPerHour)
              diff2 == JsMinus(diff1, JsTimes(hours, MsPerHour))
              minutes == JsFloorDiv(diff2, MsPerMinute)
              parts == Part(days, "d") \o Part(hours, "h") \o Part(minutes, "m")
          IN IF parts = <<>> THEN LessThanMinute ELSE JoinSpace(parts)

\* n.toLocaleString('en-US') of an integer: groups of three digits.
RECURSIVE Grouped(_)
Grouped(n) ==
  IF n < 1000 THEN ToString(n)
  ELSE LET r == n % 1000
       IN Grouped(n \div 1000) \o ","
          \o (IF r < 10 THEN "00" ELSE IF r < 100 THEN "0" ELSE "") \o ToString(r)

formatNumber(n) == IF n < 0 THEN "-" \o Grouped(-n) ELSE Grouped(n)

\* formatDate: "June 1, 2024"; the dash for an absent date; a string that is
\* no date splits into NaN parts, which toLocaleDateString prints as below.
MonthNames ==
  <<"January", "February", "March", "April", "May", "June", "July", "August",
    "September", "October", "November", "December">>

formatDate(dateStr) ==
  IF dateStr.t = "undefined" THEN Dash
  ELSE IF dateStr.t = "bad" THEN "Invalid Date"
  ELSE MonthNames[dateStr.m] \o " " \o ToString(dateStr.d) \o ", " \o ToString(dateStr.y)

\* `${x}` of a number held in hundredths: 1420 is "14.2", 4 is "0.04".
NumberText(h) ==
  LET a == Abs(h)
      fp == a % 100
  IN (IF h < 0 THEN "-" ELSE "") \o ToString(a \div 100)
     \o (IF fp = 0 THEN ""
         ELSE IF fp % 10 = 0 THEN "." \o ToString(fp \div 10)
         ELSE IF fp < 10 THEN ".0" \o ToString(fp)
         ELSE "." \o ToString(fp))

(***************************************************************************)
(* trip.js: the GeoJSON of a day file.                                     *)
(*   geometry:  [t, type, coordinates, lines]  coordinates is the point    *)
(*              array of a LineString, lines the array of point arrays of  *)
(*              a MultiLineString (both are `coordinates` in the JSON)     *)
(*   feature:   [t, geometry, properties]  (t = "null": a null entry)      *)
(*   geojson:   [t, type, features, geometry, properties, coordinates,     *)
(*              lines]  (t = "null": the JSON text `null`)                 *)
(***************************************************************************)
Arr(a) == [t |-> "arr", a |-> a]
NoArr == [t |-> "undefined", a |-> <<>>]

Props(day, dist, elev) ==
  [t |-> "obj", day |-> day, distance_miles |-> dist, elevation_gain_ft |-> elev]
NullProps ==
  [t |-> "null", day |-> NullNum, distance_miles |-> NullNum, elevation_gain_ft |-> NullNum]

Geometry(type, coordinates, lines) ==
  [t |-> "obj", type |-> type, coordinates |-> coordinates, lines |-> lines]
NullGeometry == [t |-> "null", type |-> "", coordinates |-> NoArr, lines |-> NoArr]
LineString(pts) == Geometry("LineString", Arr(pts), NoArr)
MultiLineString(paths) == Geometry("MultiLineString", NoArr, Arr(paths))
PointGeometry == Geometry("Point", NoArr, NoArr)

Feature(geometry, properties) ==
  [t |-> "obj", geometry |-> geometry, properties |-> properties]
NullFeature == [t |-> "null", geometry |-> NullGeometry, properties |-> NullProps]

FeatureCollection(features) ==
  [t |-> "obj", type |-> "FeatureCollection", features |-> features,
   geometry |-> NullGeometry, properties |-> NullProps,
   coordinates |-> NoArr, lines |-> NoArr]
SingleFeature(f) ==
  [t |-> "obj", type |-> "Feature", features |-> NoArr,
   geometry |-> f.geometry, properties |-> f.properties,
   coordinates |-> NoArr, lines |-> NoArr]
BareGeometry(g) ==
  [t |-> "obj", type |-> g.type, features |-> NoArr,
   geometry |-> NullGeometry, properties |-> NullProps,
   coordinates |-> g.coordinates, lines |-> g.lines]
NullGeojson ==
  [t |-> "null", type |-> "", features |-> NoArr,
   geometry |-> NullGeometry, properties |-> NullProps,
   coordinates |-> NoArr, lines |-> NoArr]

RECURSIVE Flat(_)
Flat(paths) == IF paths = <<>> THEN <<>> ELSE Head(paths) \o Flat(Tail(paths))

\* Variant: the coordinates of a geometry of any kind are taken as a path.
extractCoordsFromGeometryAnyKind(geometry) ==
  IF geometry.t = "null" THEN Arr(<<>>)
  ELSE IF geometry.type = "MultiLineString" THEN Arr(Flat(geometry.lines.a))
  ELSE Arr(geometry.coordinates.a)

\* geometry.coordinates || []
extractCoordsFromGeometry(geometry) ==
  IF geometry.t = "null" THEN Arr(<<>>)
  ELSE IF geometry.type = "LineString" THEN Arr(geometry.coordinates.a)
  ELSE IF geometry.type = "MultiLineString" THEN Arr(Flat(geometry.lines.a))
  ELSE Arr(<<>>)

RetCoords(c) == [raised |-> FALSE, found |-> TRUE, val |-> c, msg |-> ""]
NoCoords == [raised |-> FALSE, found |-> FALSE, val |-> Arr(<<>>), msg |-> ""]
RaiseCoords(m) == [raised |-> TRUE, found |-> FALSE, val |-> Arr(<<>>), msg |-> m]

\* Variant: the first feature with a line geometry ends the scan, also when
\* its path is empty.
RECURSIVE ScanFeaturesFirstLine(_)
ScanFeaturesFirstLine(features) ==
  IF features = <<>> THEN NoCoords
  ELSE IF Head(features).t = "null" THEN RaiseCoords(NullReadMsg)
  ELSE IF Head(features).geometry.t = "obj"
          /\ Head(features).geometry.type \in {"LineString", "MultiLineString"}
       THEN RetCoords(extractCoordsFromGeometry(Head(features).geometry))
       ELSE ScanFeaturesFirstLine(Tail(features))

\* The loop over the features of a collection: reading .geometry of a null
\* entry throws a TypeError.
RECURSIVE ScanFeatures(_)
ScanFeatures(features) ==
  IF features = <<>> THEN NoCoords
  ELSE IF Head(features).t = "null" THEN RaiseCoords(NullReadMsg)
  ELSE LET c == extractCoordsFromGeometry(Head(features).geometry)
       IN IF Len(c.a) > 0 THEN RetCoords(c) ELSE ScanFeatures(Tail(features))

extractCoords(geojson) ==
  IF geojson.t = "null" THEN RetCoords(Arr(<<>>))
  ELSE LET scan == IF geojson.type = "FeatureCollection"
                   THEN ScanFeatures(geojson.features.a)
                   ELSE NoCoords
       IN IF scan.raised \/ scan.found THEN scan
          ELSE IF geojson.type = "Feature"
               THEN RetCoords(extractCoordsFromGeometry(geojson.geometry))
          ELSE RetCoords(extractCoordsFromGeometry(geojson))

getFirstFeatureProps(geojson) ==
  IF geojson.t = "null" THEN NullProps
  ELSE IF geojson.type = "FeatureCollection"
       THEN IF geojson.features.t = "arr" /\ Len(geojson.features.a) > 0
               /\ geojson.features.a[1].t # "null"
            THEN geojson.features.a[1].properties
            ELSE NullProps
  ELSE IF geojson.type = "Feature" THEN geojson.properties
  ELSE NullProps

(***************************************************************************)
(* trip.js: loadDayGeoJSON.                                                *)
(***************************************************************************)
TripId == "jmt"
DataRoot == "../data"

\* The result object as created, before the fetch (index is 0-based).
NewResult(index, filename) ==
  [index |-> index, filename |-> filename,
   url |-> DataRoot \o "/" \o TripId \o "/" \o filename,
   ok |-> FALSE, geojson |-> NullGeojson, dayNumber |-> index + 1,
   distance |-> 0, elevation |-> 0, error |-> NullStr]

\* catch (err) { result.error = err.message }
Caught(result, msg) == [result EXCEPT !.error = Str(msg)]

HasOverride(props, v) == props.t # "null" /\ v.t # "null"

\* Variant: the position itself, without the + 1.
dayNumberOfZeroBased(props, index) ==
  IF HasOverride(props, props.day) THEN props.day.v ELSE index

\* (props && props.day != null) ? props.day : index + 1
dayNumberOf(props, index) ==
  IF HasOverride(props, props.day) THEN props.day.v ELSE index + 1

\* The try block from `result.geojson = geojson` on: the statements run in
\* order and an exception leaves the assignments made so far in place.
ResolveDay(result, geojson) ==
  LET r1 == [result EXCEPT !.geojson = geojson, !.ok = TRUE]
      coords == extractCoords(geojson)
      props == getFirstFeatureProps(geojson)
      r2 == [r1 EXCEPT !.dayNumber = dayNumberOf(props, r1.index)]
      dist == IF HasOverride(props, props.distance_miles)
              THEN Ret(props.distance_miles.v)
              ELSE calcDistance(coords.val)
      r3 == [r2 EXCEPT !.distance = dist.val]
      elev == IF HasOverride(props, props.elevation_gain_ft)
              THEN Ret(props.elevation_gain_ft.v)
              ELSE calcElevationGain(coords.val)
  IN IF coords.raised THEN Caught(r1, coords.msg)
     ELSE IF dist.raised THEN Caught(r2, dist.msg)
     ELSE IF elev.raised THEN Caught(r3, elev.msg)
     ELSE [r3 EXCEPT !.elevation = elev.val]

\* What a day fetch can deliver: the fetch rejects (network error), the
\* response has a non-success status, the body is no JSON, or the body
\* parses to a GeoJSON value.
NetworkError == [kind |-> "network", status |-> 0, body |-> NullGeojson]
HttpError(status) == [kind |-> "http", status |-> status, body |-> NullGeojson]
ParseError == [kind |-> "parse", status |-> 200, body |-> NullGeojson]
Payload(g) == [kind |-> "json", status |-> 200, body |-> g]
NotFetched == [kind |-> "none", status |-> 0, body |-> NullGeojson]

FetchFailedMsg == "Failed to fetch"
JsonSyntaxMsg == "Unexpected token < in JSON"

\* Variant: result.ok is set once the response status is a success, before
\* the body is parsed.
FinishDayOkBeforeParse(result, got) ==
  IF got.kind = "network" THEN Caught(result, FetchFailedMsg)
  ELSE IF got.kind = "http" THEN Caught(result, "HTTP " \o ToString(got.status))
  ELSE IF got.kind = "parse" THEN Caught([result EXCEPT !.ok = TRUE], JsonSyntaxMsg)
  ELSE ResolveDay(result, got.body)

\* loadDayGeoJSON once its fetch delivered `got`.
FinishDay(result, got) ==
  IF got.kind = "network" THEN Caught(result, FetchFailedMsg)
  ELSE IF got.kind = "http" THEN Caught(result, "HTTP " \o ToString(got.status))
  ELSE IF got.kind = "parse" THEN Caught(result, JsonSyntaxMsg)
  ELSE ResolveDay(result, got.body)

(***************************************************************************)
(* trip.js: initTripPage and what it renders.                              *)
(***************************************************************************)
Meta(title, startDate, startTime, endDate, endTime, days) ==
  [t |-> "obj", title |-> title, description |-> NullStr,
   start_date |-> startDate, start_time |-> startTime,
   end_date |-> endDate, end_time |-> endTime, days |-> days]
NullMeta ==
  [t |-> "null", title |-> NullStr, description |-> NullStr,
   start_date |-> UndefDate, start_time |-> UndefTime,
   end_date |-> UndefDate, end_time |-> UndefTime, days |-> NoArr]
\* meta.days that is present but no array (Array.isArray is false).
NotAnArray == [t |-> "other", a |-> <<>>]

FileName(i) == "day-" \o ToString(i) \o ".geojson"
FileList(n) == [i \in 1..n |-> FileName(i)]

NoText ==
  [title |-> "", description |-> "", startDate |-> "", endDate |-> "",
   elapsed |-> "", totalDistance |-> "", totalElevation |-> "",
   daysCount |-> "", docTitle |-> ""]
NoPageError == [meta |-> "", map |-> ""]

OrElse(s, dflt) == IF s.t = "null" \/ s.s = "" THEN dflt ELSE s.s

\* Variant: the elapsed time is not among the header fields.
HeaderTextWithoutElapsed(m) ==
  [NoText EXCEPT
     !.title = OrElse(m.title, TripId),
     !.description = OrElse(m.description, ""),
     !.startDate = formatDate(m.start_date),
     !.endDate = formatDate(m.end_date),
     !.docTitle = OrElse(m.title, TripId) \o " - Hiking Journal"]

\* The static header fields set from meta (lines 45-55).
HeaderText(m) ==
  [NoText EXCEPT
     !.title = OrElse(m.title, TripId),
     !.description = OrElse(m.description, ""),
     !.startDate = formatDate(m.start_date),
     !.endDate = formatDate(m.end_date),
     !.elapsed = calcElapsedTime(m.start_date, m.start_time, m.end_date, m.end_time),
     !.docTitle = OrElse(m.title, TripId) \o " - Hiking Journal"]

NoResult == NewResult(-1, "")

\* Variant: the values are kept in the order the promises settle.
PromiseAllSlotByCompletion(i, settledSoFar) == settledSoFar + 1

\* Promise.all keeps the value of the promise at position i in slot i.
PromiseAllSlot(i, settledSoFar) == i

IsOk(d) == d.ok

\* Variant: the promise of a day that failed is rejected.
FulfilledIfOk(result) == result.ok

\* loadDayGeoJSON catches every exception of its try block and returns the
\* result: its promise is fulfilled, never rejected, whatever the result is.
Fulfilled(result) == result.ok \/ ~result.ok

\* Variant: the days before the first failed day only.
RECURSIVE validDaysUntilFailure(_)
validDaysUntilFailure(results) ==
  IF results = <<>> \/ ~Head(results).ok THEN <<>>
  ELSE <<Head(results)>> \o validDaysUntilFailure(Tail(results))

\* Variant: no filter, every day result is kept.
validDaysAll(results) == results

\* dayResults.filter(d => d.ok)
validDays(results) == SelectSeq(results, IsOk)

RECURSIVE SumDistance(_)
SumDistance(days) ==
  IF days = <<>> THEN 0 ELSE Head(days).distance + SumDistance(Tail(days))
RECURSIVE SumElevation(_)
SumElevation(days) ==
  IF days = <<>> THEN 0 ELSE Head(days).elevation + SumElevation(Tail(days))

\* `${Math.round(totalDistance * 10) / 10} mi`
TotalDistanceText(totalDistance) == NumberText(MathRound(totalDistance, 10) * 10) \o " mi"
\* Variant: the sum is printed as it is.
TotalElevationTextExact(totalElevation) == formatNumber(totalElevation) \o " ft"
\* `${formatNumber(Math.round(totalElevation / 10) * 10)} ft`
TotalElevationText(totalElevation) == formatNumber(MathRound(totalElevation, 10) * 10) \o " ft"

\* One row of buildDayTable.
DayRow(day) ==
  IF day.ok
  THEN [label |-> "Day " \o ToString(day.dayNumber), ok |-> TRUE,
        distance |-> NumberText(day.distance) \o " mi",
        elevation |-> "+" \o formatNumber(day.elevation) \o " ft",
        failure |-> ""]
  ELSE [label |-> "Day " \o ToString(day.dayNumber), ok |-> FALSE,
        distance |-> "", elevation |-> "",
        failure |-> "Failed to load (" \o OrElse(day.error, "unknown error") \o ")"]

buildDayTable(results) == [i \in 1..Len(results) |-> DayRow(results[i])]

HasLayer(d) == d.ok /\ d.geojson.t # "null"
MapIndices(days) == [i \in 1..Len(days) |-> days[i].index]
LegendLabel(days) == [i \in 1..Len(days) |-> "Day " \o ToString(days[i].dayNumber)]

(***************************************************************************)
(* The homepage (main.js): fetchDayStats and computeTripData.  Its          *)
(* extractCoords, extractCoordsFromGeometry and getFirstFeatureProps are    *)
(* copies of those of trip.js, statement for statement.                     *)
(***************************************************************************)
DayStats(ok, distance, elevation) ==
  [ok |-> ok, distance |-> distance, elevation |-> elevation]
\* catch { return { ok: false, distance: 0, elevation: 0 } }
FailedStats == DayStats(FALSE, 0, 0)

\* fetchDayStats once its fetch delivered `got`: the whole body is one try,
\* and the object is only built after both statistics were computed.
fetchDayStats(got) ==
  IF got.kind # "json" THEN FailedStats
  ELSE LET geojson == got.body
           coords == extractCoords(geojson)
           props == getFirstFeatureProps(geojson)
           distance == IF HasOverride(props, props.distance_miles)
                       THEN Ret(props.distance_miles.v)
                       ELSE calcDistance(coords.val)
           elevation == IF HasOverride(props, props.elevation_gain_ft)
                        THEN Ret(props.elevation_gain_ft.v)
                        ELSE calcElevationGain(coords.val)
       IN IF coords.raised \/ distance.raised \/ elevation.raised THEN FailedStats
          ELSE DayStats(TRUE, distance.val, elevation.val)

\* The result object of computeTripData; rejected: the function threw.
HomeResult ==
  [called |-> TRUE, rejected |-> FALSE, title |-> TripId, duration |-> NullStr,
   totalDistance |-> NullNum, totalElevation |-> NullNum, error |-> NullStr,
   dayResults |-> <<>>]
HomeIdle == [HomeResult EXCEPT !.called = FALSE]

\* computeTripData when the fetch of meta.json, its status test or its parse
\* threw.
computeTripDataMetaFailed(msg) ==
  [HomeResult EXCEPT !.error = Str("Could not load meta.json (" \o msg \o ")")]

\* computeTripData once meta.json was parsed to m and the day fetches
\* delivered `outcomes` (Promise.all keeps them in the order of m.days).
computeTripData(m, outcomes) ==
  IF m.t = "null" THEN [HomeResult EXCEPT !.rejected = TRUE]
  ELSE LET r1 == [HomeResult EXCEPT
                    !.title = OrElse(m.title, TripId),
                    !.duration =
                      IF m.start_date.t # "undefined" /\ m.end_date.t # "undefined"
                      THEN Str(calcElapsedTime(m.start_date, m.start_time,
                                               m.end_date, m.end_time))
                      ELSE NullStr]
           files == IF m.days.t = "arr" THEN m.days.a ELSE <<>>
           days == [i \in 1..Len(files) |-> fetchDayStats(outcomes[i])]
           valid == SelectSeq(days, IsOk)
       IN IF Len(files) = 0 THEN r1
          ELSE [r1 EXCEPT
                  !.dayResults = days,
                  !.totalDistance = Num(MathRound(SumDistance(valid), 10) * 10),
                  !.totalElevation = Num(MathRound(SumElevation(valid), 10) * 10)]

(***************************************************************************)
(* The data the page is served: meta.json and the day files.               *)
(***************************************************************************)
Lon == -1182923
Lat1 == 365785
Lat2 == 365712
Lat3 == 365648

\* The track of the round-trip scenario: elevations 2100, 2210, 2380 m.
TrackA == <<Pt(Lon, Lat1, Num(2100)), Pt(Lon, Lat2, Num(2210)), Pt(Lon, Lat3, Num(2380))>>
\* A coordinate array with a null entry.
TrackNull == <<Pt(Lon, Lat1, Num(2100)), NullPt>>

GeoComputed == FeatureCollection(Arr(<<Feature(LineString(TrackA), NullProps)>>))
GeoAllOverrides ==
  SingleFeature(Feature(LineString(TrackA), Props(Num(7), Num(1420), Num(1234))))
GeoZeroNegative ==
  SingleFeature(Feature(LineString(TrackA), Props(NullNum, Num(0), Num(-15))))
GeoDistanceOnly ==
  SingleFeature(Feature(LineString(TrackA), Props(NullNum, Num(4), NullNum)))
GeoElevationOnly ==
  FeatureCollection(Arr(<<Feature(MultiLineString(<<TrackA, TrackA>>),
                                  Props(NullNum, NullNum, Num(1234)))>>))
GeoNoTrack == BareGeometry(PointGeometry)
GeoNullFeature == FeatureCollection(Arr(<<NullFeature>>))
GeoNullPointElevOverride ==
  SingleFeature(Feature(LineString(TrackNull), Props(NullNum, NullNum, Num(500))))
GeoNullPointDistOverride ==
  SingleFeature(Feature(LineString(TrackNull), Props(NullNum, Num(1420), NullNum)))

\* Records without a line geometry: a feature whose geometry is null, and a
\* collection whose only feature is a MultiPoint (its coordinates are an
\* array of positions, as those of a LineString are).
MultiPoint(pts) == Geometry("MultiPoint", Arr(pts), NoArr)
GeoNullGeometry == SingleFeature(Feature(NullGeometry, NullProps))
GeoMultiPoint == FeatureCollection(Arr(<<Feature(MultiPoint(TrackA), NullProps)>>))

DayPayloads ==
  {GeoComputed, GeoAllOverrides, GeoZeroNegative, GeoDistanceOnly, GeoElevationOnly,
   GeoNoTrack, GeoNullFeature, GeoNullPointElevOverride, GeoNullPointDistOverride,
   GeoNullGeometry, GeoMultiPoint}

DayBodies == {ParseError} \cup {Payload(g) : g \in DayPayloads}
Statuses == {200, 404}

June1 == DateOk(2024, 6, 1)
June15 == DateOk(2024, 6, 15)
May31 == DateOk(2024, 5, 31)

DayLists == {NoArr, NotAnArray} \cup {Arr(FileList(n)) : n \in 0..MaxDays}

MetaPayloads ==
  {NullMeta}
  \cup {Meta(Str("JMT 2024"), June1, TimeOk(7, 0, 0), June15, TimeOk(14, 30, 0), d) :
          d \in DayLists}
  \cup {Meta(NullStr, UndefDate, UndefTime, BadDate, EmptyTime, Arr(FileList(n))) :
          n \in {0, MaxDays}}
  \cup {Meta(Str("JMT 2024"), June1, TimeOk(10, 0, 0), June1, TimeOk(9, 0, 0), Arr(FileList(1)))}

(***************************************************************************)
(* The trip page as a state machine.                                       *)
(***************************************************************************)
ElIdle ==
  [startDate |-> UndefDate, startTime |-> UndefTime, endDate |-> UndefDate,
   endTime |-> UndefTime, called |-> FALSE, ret |-> ""]
TrIdle ==
  [coords |-> [t |-> "null", a |-> <<>>], distCalled |-> FALSE, dist |-> Ret(0),
   gainCalled |-> FALSE, gain |-> Ret(0)]
DyIdle ==
  [geojson |-> NullGeojson, index |-> 0, coordsCalled |-> FALSE, coords |-> NoCoords,
   loaded |-> FALSE, result |-> NoResult]

\* DOMContentLoaded with TRIP_ID set: initTripPage has issued fetch(metaUrl).
TripInit ==
  /\ pc = "fetchMeta"
  /\ meta = NullMeta
  /\ dayFiles = <<>>
  /\ fetchState = <<>>
  /\ fetched = <<>>
  /\ loadResult = <<>>
  /\ promiseValues = <<>>
  /\ settled = 0
  /\ dayResults = <<>>
  /\ text = NoText
  /\ pageError = NoPageError
  /\ dayTable = <<>>
  /\ mapLayers = <<>>
  /\ legend = <<>>

Init == TripInit /\ elCall = ElIdle /\ trCall = TrIdle /\ dyCall = DyIdle /\ homeCard = HomeIdle

showMetaError(msg) ==
  [pageError EXCEPT !.meta = "Could not load trip metadata: " \o msg]
showMapError(msg) == [pageError EXCEPT !.map = msg]

NoDayFilesMsg == "No day files listed in meta.json."

\* Variant: an empty list is loaded like any other.
NoDayFilesNever(files) == files # files

\* dayFiles.length === 0
NoDayFiles(files) == Len(files) = 0

MetaJsonSyntaxMsg == "Unexpected end of JSON input"

\* Variant: the catch shows the error and does not return.
MetaFailedNoReturn(msg) ==
  /\ pageError' = showMetaError(msg)
  /\ pc' = "parseMeta"
  /\ UNCHANGED <<meta, dayFiles, fetchState, fetched, loadResult, promiseValues,
                 settled, dayResults, text, dayTable, mapLayers, legend>>

\* catch (err) { showMetaError(err.message); return; }
MetaFailed(msg) ==
  /\ pageError' = showMetaError(msg)
  /\ pc' = "done"
  /\ UNCHANGED <<meta, dayFiles, fetchState, fetched, loadResult, promiseValues,
                 settled, dayResults, text, dayTable, mapLayers, legend>>

\* fetch(metaUrl) rejects.
MetaFetchRejects ==
  /\ pc = "fetchMeta"
  /\ MetaFailed(FetchFailedMsg)
  /\ UNCHANGED <<elCall, trCall, dyCall, homeCard>>

\* fetch(metaUrl) delivers a response: a non-success status throws.
MetaResponse ==
  /\ pc = "fetchMeta"
  /\ \E status \in Statuses :
       IF status = 200
       THEN /\ pc' = "parseMeta"
            /\ UNCHANGED <<meta, dayFiles, fetchState, fetched, loadResult,
                           promiseValues, settled, dayResults, text, pageError,
                           dayTable, mapLayers, legend>>
       ELSE MetaFailed("HTTP " \o ToString(status) \o " fetching "
                       \o DataRoot \o "/" \o TripId \o "/meta.json")
  /\ UNCHANGED <<elCall, trCall, dyCall, homeCard>>

\* res.json() rejects: the body is no JSON.
MetaBodyInvalid ==
  /\ pc = "parseMeta"
  /\ MetaFailed(MetaJsonSyntaxMsg)
  /\ UNCHANGED <<elCall, trCall, dyCall, homeCard>>

\* res.json() delivers meta: lines 44-64.  Reading a field of a null meta
\* throws outside any try, which rejects initTripPage.
MetaLoaded ==
  /\ pc = "parseMeta"
  /\ \E m \in MetaPayloads :
       /\ meta' = m
       /\ IF m.t = "null"
          THEN /\ pc' = "rejected"
               /\ UNCHANGED <<dayFiles, fetchState, fetched, loadResult, text, pageError>>
          ELSE LET files == IF m.days.t = "arr" THEN m.days.a ELSE <<>>
               IN /\ text' = HeaderText(m)
                  /\ dayFiles' = files
                  /\ IF NoDayFiles(files)
                     THEN /\ pageError' = showMapError(NoDayFilesMsg)
                          /\ pc' = "done"
                          /\ UNCHANGED <<fetchState, fetched, loadResult>>
                     ELSE /\ pc' = "loadDays"
                          /\ fetchState' = [i \in 1..Len(files) |-> "fetching"]
                          /\ fetched' = [i \in 1..Len(files) |-> NotFetched]
                          /\ loadResult' = [i \in 1..Len(files) |-> NewResult(i - 1, files[i])]
                          /\ UNCHANGED pageError
  /\ UNCHANGED <<promiseValues, settled, dayResults, dayTable, mapLayers, legend>>
  /\ UNCHANGED <<elCall, trCall, dyCall, homeCard>>

\* loadDayGeoJSON of day i returns its result: its promise is fulfilled and
\* Promise.all keeps the value.
DayReturns(i, got) ==
  LET result == FinishDay(loadResult[i], got)
      slot == PromiseAllSlot(i, settled)
  IN /\ fetched' = [fetched EXCEPT ![i] = got]
     /\ loadResult' = [loadResult EXCEPT ![i] = result]
     /\ fetchState' = [fetchState EXCEPT ![i] = "done"]
     /\ promiseValues' = [k \in 1..Len(dayFiles) |->
                            IF k = slot THEN result
                            ELSE IF k <= Len(promiseValues) THEN promiseValues[k]
                            ELSE NoResult]
     /\ settled' = settled + 1
     /\ UNCHANGED <<pc, meta, dayFiles, dayResults, text, pageError, dayTable,
                    mapLayers, legend>>

\* The fetch of day i rejects (network error).
DayFetchRejects(i) ==
  /\ pc = "loadDays"
  /\ fetchState[i] = "fetching"
  /\ DayReturns(i, NetworkError)
  /\ UNCHANGED <<elCall, trCall, dyCall, homeCard>>

\* The fetch of day i delivers a response: a non-success status throws.
DayResponse(i) ==
  /\ pc = "loadDays"
  /\ fetchState[i] = "fetching"
  /\ \E status \in Statuses :
       IF status = 200
       THEN /\ fetchState' = [fetchState EXCEPT ![i] = "parsing"]
            /\ UNCHANGED <<pc, meta, dayFiles, fetched, loadResult, promiseValues,
                           settled, dayResults, text, pageError, dayTable,
                           mapLayers, legend>>
       ELSE DayReturns(i, HttpError(status))
  /\ UNCHANGED <<elCall, trCall, dyCall, homeCard>>

\* res.json() of day i settles: a syntax error, or the parsed GeoJSON.
DayBody(i) ==
  /\ pc = "loadDays"
  /\ fetchState[i] = "parsing"
  /\ \E got \in DayBodies : DayReturns(i, got)
  /\ UNCHANGED <<elCall, trCall, dyCall, homeCard>>

\* Promise.all is fulfilled: lines 64-87.  Whether Leaflet finds valid
\* bounds for the layers is the library's answer.
Aggregate ==
  /\ pc = "loadDays"
  /\ settled = Len(dayFiles)
  /\ \A i \in 1..Len(promiseValues) : Fulfilled(promiseValues[i])
  /\ LET results == promiseValues
         valid == validDays(results)
         layers == SelectSeq(results, HasLayer)
     IN /\ dayResults' = results
        /\ text' = [text EXCEPT
             !.totalDistance = TotalDistanceText(SumDistance(valid)),
             !.totalElevation = TotalElevationText(SumElevation(valid)),
             !.daysCount = ToString(Len(valid))]
        /\ dayTable' = buildDayTable(results)
        /\ mapLayers' = MapIndices(layers)
        /\ \E boundsFound \in BOOLEAN :
             /\ (layers = <<>>) => ~boundsFound
             /\ pageError' = IF boundsFound THEN pageError
                             ELSE showMapError("Could not determine route bounds.")
        /\ legend' = LegendLabel(SelectSeq(results, IsOk))
  /\ pc' = "done"
  /\ UNCHANGED <<meta, dayFiles, fetchState, fetched, loadResult, promiseValues, settled>>
  /\ UNCHANGED <<elCall, trCall, dyCall, homeCard>>

\* Variant: the collected day results and their count outlive the document.
ReloadKeepingResults ==
  /\ pc \in {"done", "rejected"}
  /\ pc' = "fetchMeta"
  /\ meta' = NullMeta
  /\ dayFiles' = <<>>
  /\ fetchState' = <<>>
  /\ fetched' = <<>>
  /\ loadResult' = <<>>
  /\ dayResults' = <<>>
  /\ text' = NoText
  /\ pageError' = NoPageError
  /\ dayTable' = <<>>
  /\ mapLayers' = <<>>
  /\ legend' = <<>>
  /\ UNCHANGED <<promiseValues, settled, elCall, trCall, dyCall, homeCard>>

\* The page is loaded again: a new document, in which the script starts from
\* nothing and DOMContentLoaded calls initTripPage once more.
Reload ==
  /\ pc \in {"done", "rejected"}
  /\ pc' = "fetchMeta"
  /\ meta' = NullMeta
  /\ dayFiles' = <<>>
  /\ fetchState' = <<>>
  /\ fetched' = <<>>
  /\ loadResult' = <<>>
  /\ promiseValues' = <<>>
  /\ settled' = 0
  /\ dayResults' = <<>>
  /\ text' = NoText
  /\ pageError' = NoPageError
  /\ dayTable' = <<>>
  /\ mapLayers' = <<>>
  /\ legend' = <<>>
  /\ UNCHANGED <<elCall, trCall, dyCall, homeCard>>

Next ==
  \/ MetaFetchRejects
  \/ MetaResponse
  \/ MetaBodyInvalid
  \/ MetaLoaded
  \/ \E i \in 1..Len(dayFiles) : DayFetchRejects(i)
  \/ \E i \in 1..Len(dayFiles) : DayResponse(i)
  \/ \E i \in 1..Len(dayFiles) : DayBody(i)
  \/ Aggregate
  \/ Reload

Spec == Init /\ [][Next]_vars

\* The trip page with its scheduling: a day fetch that is pending settles, a
\* response body that is being read is delivered or fails, and the
\* continuation of initTripPage runs once Promise.all is fulfilled.
DayFetchSettles(i) == i \in DOMAIN fetchState /\ (DayFetchRejects(i) \/ DayResponse(i))
DayBodySettles(i) == i \in DOMAIN fetchState /\ DayBody(i)

Fairness ==
  /\ \A i \in 1..MaxDays : WF_vars(DayFetchSettles(i))
  /\ \A i \in 1..MaxDays : WF_vars(DayBodySettles(i))
  /\ WF_vars(Aggregate)

SpecLive == Init /\ [][Next]_vars /\ Fairness

(***************************************************************************)
(* calcElapsedTime on its own: the arguments are drawn from the date and   *)
(* time strings below, then the function is called once.                   *)
(***************************************************************************)
TripOff ==
  /\ pc = "off"
  /\ meta = NullMeta
  /\ dayFiles = <<>>
  /\ fetchState = <<>>
  /\ fetched = <<>>
  /\ loadResult = <<>>
  /\ promiseValues = <<>>
  /\ settled = 0
  /\ dayResults = <<>>
  /\ text = NoText
  /\ pageError = NoPageError
  /\ dayTable = <<>>
  /\ mapLayers = <<>>
  /\ legend = <<>>

DateStrings == {May31, June1, June15, UndefDate, BadDate}
TimeStrings ==
  {TimeOk(0, 0, 0), TimeOk(7, 0, 0), TimeOk(7, 0, 30), TimeOk(9, 0, 0),
   TimeOk(10, 0, 0), TimeOk(14, 30, 0), UndefTime, EmptyTime, BadTime}

InitElapsed ==
  /\ TripOff
  /\ trCall = TrIdle
  /\ dyCall = DyIdle /\ homeCard = HomeIdle
  /\ \E sd \in DateStrings, st \in TimeStrings, ed \in DateStrings, et \in TimeStrings :
       elCall = [startDate |-> sd, startTime |-> st, endDate |-> ed, endTime |-> et,
                 called |-> FALSE, ret |-> ""]

CallElapsedTime ==
  /\ ~elCall.called
  /\ elCall' = [elCall EXCEPT
       !.called = TRUE,
       !.ret = calcElapsedTime(elCall.startDate, elCall.startTime,
                               elCall.endDate, elCall.endTime)]
  /\ UNCHANGED <<tripVars, trCall, dyCall, homeCard>>

NextElapsed == CallElapsedTime

SpecElapsed == InitElapsed /\ [][NextElapsed]_vars

(***************************************************************************)
(* calcDistance and calcElevationGain on their own: a coordinate array is  *)
(* drawn, then each function is called once on it.                         *)
(***************************************************************************)
\* A third element that is no number (typeof is not 'number').
NonNumeric == [t |-> "str", v |-> 0]

Elevations == {NullNum, NonNumeric, Num(2100), Num(2210), Num(2380)}
Points == {Pt(Lon, lat, e) : lat \in {Lat1, Lat2}, e \in Elevations} \cup {NullPt}
CoordArrays ==
  {[t |-> "null", a |-> <<>>]}
  \cup {Arr(a) : a \in UNION {[1..n -> Points] : n \in 0..MaxPts}}

InitTrack ==
  /\ TripOff
  /\ elCall = ElIdle
  /\ dyCall = DyIdle /\ homeCard = HomeIdle
  /\ \E c \in CoordArrays :
       trCall = [coords |-> c, distCalled |-> FALSE, dist |-> Ret(0),
                 gainCalled |-> FALSE, gain |-> Ret(0)]

CallDistance ==
  /\ ~trCall.distCalled
  /\ trCall' = [trCall EXCEPT !.distCalled = TRUE, !.dist = calcDistance(trCall.coords)]
  /\ UNCHANGED <<tripVars, elCall, dyCall, homeCard>>

CallElevationGain ==
  /\ ~trCall.gainCalled
  /\ trCall' = [trCall EXCEPT !.gainCalled = TRUE,
                              !.gain = calcElevationGain(trCall.coords)]
  /\ UNCHANGED <<tripVars, elCall, dyCall, homeCard>>

NextTrack == CallDistance \/ CallElevationGain

SpecTrack == InitTrack /\ [][NextTrack]_vars

(***************************************************************************)
(* extractCoords and loadDayGeoJSON on their own: a parsed day file and    *)
(* the position of the file are drawn, then extractCoords is called on the *)
(* record and loadDayGeoJSON is run with a fetch that delivers it.         *)
(***************************************************************************)
TrackB == <<Pt(Lon, Lat2, Num(2210)), Pt(Lon, Lat3, Num(2380))>>

FeatureKinds ==
  {Feature(LineString(TrackA), Props(Num(2), Num(1420), Num(1234))),
   Feature(LineString(TrackB), NullProps),
   Feature(MultiLineString(<<TrackB, TrackA>>), Props(NullNum, NullNum, NullNum)),
   Feature(LineString(<<>>), Props(Num(9), Num(500), NullNum)),
   Feature(Geometry("LineString", NoArr, NoArr), NullProps),
   Feature(PointGeometry, Props(Num(9), Num(500), Num(70))),
   Feature(MultiPoint(TrackA), Props(NullNum, NullNum, Num(70))),
   Feature(NullGeometry, NullProps),
   NullFeature}

DayRecords ==
  {NullGeojson, FeatureCollection(NoArr)}
  \cup {FeatureCollection(Arr(fs)) :
          fs \in UNION {[1..n -> FeatureKinds] : n \in 0..MaxFeatures}}
  \cup {SingleFeature(f) : f \in FeatureKinds \ {NullFeature}}
  \cup {BareGeometry(f.geometry) : f \in FeatureKinds \ {NullFeature}}

InitDay ==
  /\ TripOff
  /\ elCall = ElIdle
  /\ trCall = TrIdle
  /\ homeCard = HomeIdle
  /\ \E g \in DayRecords, index \in 0..(MaxDays - 1) :
       dyCall = [DyIdle EXCEPT !.geojson = g, !.index = index]

CallExtractCoords ==
  /\ ~dyCall.coordsCalled
  /\ dyCall' = [dyCall EXCEPT !.coordsCalled = TRUE,
                              !.coords = extractCoords(dyCall.geojson)]
  /\ UNCHANGED <<tripVars, elCall, trCall, homeCard>>

CallLoadDay ==
  /\ ~dyCall.loaded
  /\ dyCall' = [dyCall EXCEPT
       !.loaded = TRUE,
       !.result = FinishDay(NewResult(dyCall.index, FileName(dyCall.index + 1)),
                            Payload(dyCall.geojson))]
  /\ UNCHANGED <<tripVars, elCall, trCall, homeCard>>

NextDay == CallExtractCoords \/ CallLoadDay

SpecDay == InitDay /\ [][NextDay]_vars

(***************************************************************************)
(* The homepage's computeTripData on its own: the meta.json of the trip    *)
(* and what the fetch of each day file delivers are drawn, then the        *)
(* function is run on them.  The trip page run on the same data returns    *)
(* ExpectedResults (defined with the properties below).                    *)
(***************************************************************************)
DayOutcomes ==
  {NetworkError} \cup {HttpError(st) : st \in Statuses \ {200}} \cup DayBodies

ServedDays(m) == IF m.days.t = "arr" THEN Len(m.days.a) ELSE 0

InitHome ==
  /\ pc = "off"
  /\ \E m \in MetaPayloads :
       /\ meta = m
       /\ fetched \in [1..ServedDays(m) -> DayOutcomes]
  /\ dayFiles = <<>>
  /\ fetchState = <<>>
  /\ loadResult = <<>>
  /\ promiseValues = <<>>
  /\ settled = 0
  /\ dayResults = <<>>
  /\ text = NoText
  /\ pageError = NoPageError
  /\ dayTable = <<>>
  /\ mapLayers = <<>>
  /\ legend = <<>>
  /\ elCall = ElIdle
  /\ trCall = TrIdle
  /\ dyCall = DyIdle
  /\ homeCard = HomeIdle

\* The fetch of meta.json rejects, has an error status, or is no JSON.
HomeMetaFails ==
  /\ ~homeCard.called
  /\ \E msg \in {FetchFailedMsg, "HTTP 404", MetaJsonSyntaxMsg} :
       homeCard' = computeTripDataMetaFailed(msg)
  /\ UNCHANGED <<tripVars, elCall, trCall, dyCall>>

\* meta.json is parsed and every day fetch has settled.
HomeComputeTripData ==
  /\ ~homeCard.called
  /\ homeCard' = computeTripData(meta, fetched)
  /\ UNCHANGED <<tripVars, elCall, trCall, dyCall>>

NextHome == HomeMetaFails \/ HomeComputeTripData

SpecHome == InitHome /\ [][NextHome]_vars

(***************************************************************************)
(* Properties of the trip page.                                            *)
(***************************************************************************)
Loaded == pc = "done" /\ Len(dayResults) > 0
FetchFailed(got) == got.kind \in {"network", "http", "parse"}
DayDone(i) == fetchState[i] = "done"

RECURSIVE SumDistanceOver(_)
SumDistanceOver(S) ==
  IF S = {} THEN 0
  ELSE LET i == CHOOSE x \in S : TRUE
       IN dayResults[i].distance + SumDistanceOver(S \ {i})
RECURSIVE SumElevationOver(_)
SumElevationOver(S) ==
  IF S = {} THEN 0
  ELSE LET i == CHOOSE x \in S : TRUE
       IN dayResults[i].elevation + SumElevationOver(S \ {i})

SuccessDays == {i \in 1..Len(dayResults) : dayResults[i].ok}
FetchedDays == {i \in 1..Len(dayResults) : ~FetchFailed(fetched[i])}

\* C1: once a trip is loaded, the published total distance and total
\* elevation are the sums over exactly the day results whose ok flag is
\* true; a day whose fetch failed has ok false and adds 0 to both, whatever
\* the other days are, so the totals are also the sums over the days whose
\* fetch did not fail.
C1_TotalsOverSuccessfulDays ==
  Loaded =>
    /\ text.totalDistance = TotalDistanceText(SumDistanceOver(SuccessDays))
    /\ text.totalElevation = TotalElevationText(SumElevationOver(SuccessDays))
    /\ \A i \in 1..Len(dayResults) :
         FetchFailed(fetched[i]) =>
           /\ i \notin SuccessDays
           /\ dayResults[i].distance = 0
           /\ dayResults[i].elevation = 0
    /\ text.totalDistance = TotalDistanceText(SumDistanceOver(FetchedDays))
    /\ text.totalElevation = TotalElevationText(SumElevationOver(FetchedDays))

\* A loaded trip whose first day failed and whose last day succeeded with a
\* distance and an elevation that are not 0.
C1_Witness ==
  /\ Loaded
  /\ Len(dayResults) = MaxDays
  /\ FetchFailed(fetched[1])
  /\ dayResults[MaxDays].ok
  /\ dayResults[MaxDays].distance > 0
  /\ dayResults[MaxDays].elevation > 0

\* C2: in whatever order the day fetches complete, the values Promise.all
\* holds, and the list initTripPage receives, have one entry per entry of
\* meta.days in the same order: entry i has index i - 1 (0-based) and the
\* file name and URL of the i-th file, and is the result of that file's
\* load.  With 3 entries of which the second failed, the list has length 3,
\* its second entry is not ok, and the totals are those of entries 1 and 3.
C2_ResultsInDayListOrder ==
  /\ \A i \in 1..Len(fetchState) :
       DayDone(i) =>
         /\ promiseValues[i] = loadResult[i]
         /\ promiseValues[i].index = i - 1
         /\ promiseValues[i].filename = meta.days.a[i]
  /\ Loaded =>
       /\ Len(dayResults) = Len(meta.days.a)
       /\ \A i \in 1..Len(dayResults) :
            /\ dayResults[i].index = i - 1
            /\ dayResults[i].filename = meta.days.a[i]
            /\ dayResults[i].url = DataRoot \o "/" \o TripId \o "/" \o meta.days.a[i]
            /\ dayResults[i] = loadResult[i]
       /\ (Len(meta.days.a) = 3 /\ FetchFailed(fetched[2])
           /\ ~FetchFailed(fetched[1]) /\ ~FetchFailed(fetched[3])) =>
            /\ Len(dayResults) = 3
            /\ ~dayResults[2].ok
            /\ text.totalDistance =
                 TotalDistanceText(dayResults[1].distance + dayResults[3].distance)
            /\ text.totalElevation =
                 TotalElevationText(dayResults[1].elevation + dayResults[3].elevation)

\* Three day entries, the second failed, the first and third loaded with
\* different statistics.
C2_Witness ==
  /\ Loaded
  /\ Len(dayResults) = 3
  /\ FetchFailed(fetched[2])
  /\ dayResults[1].ok /\ dayResults[3].ok
  /\ dayResults[1].distance # dayResults[3].distance
  /\ dayResults[1].distance + dayResults[3].distance > 0

\* C3: a day whose fetch failed (the fetch rejected, the status was not a
\* success, or the body was no JSON) has a result with ok false, distance 0,
\* elevation 0, day number = index + 1, no GeoJSON and an error message.
FailedDayResult(r) ==
  /\ ~r.ok
  /\ r.distance = 0
  /\ r.elevation = 0
  /\ r.dayNumber = r.index + 1
  /\ r.geojson.t = "null"
  /\ r.error.t = "str"

C3_FailedFetchResult ==
  /\ \A i \in 1..Len(fetchState) :
       (DayDone(i) /\ FetchFailed(fetched[i])) =>
         /\ FailedDayResult(loadResult[i])
         /\ loadResult[i].index = i - 1
  /\ \A i \in 1..Len(dayResults) :
       FetchFailed(fetched[i]) => FailedDayResult(dayResults[i])

\* Each kind of failure has happened to one of three days.
C3_Witness ==
  /\ Loaded
  /\ \E i, j, k \in 1..Len(dayResults) :
       /\ fetched[i].kind = "network"
       /\ fetched[j].kind = "http"
       /\ fetched[k].kind = "parse"

\* The override properties of a parsed day file, its track, and the
\* statistics computed from the track.
OverrideProps(i) == getFirstFeatureProps(fetched[i].body)
TrackOf(i) == extractCoords(fetched[i].body)
Parsed(i) == DayDone(i) /\ fetched[i].kind = "json"

\* C4: for each statistic on its own, a result holds the non-null override
\* of the day's properties unchanged, whatever the track is, and holds the
\* value computed from the track when the override is absent or null.
C4_OverridePrecedence ==
  \A i \in 1..Len(fetchState) :
    Parsed(i) =>
      LET p == OverrideProps(i)
          c == TrackOf(i)
          r == loadResult[i]
      IN /\ HasOverride(p, p.distance_miles) => r.distance = p.distance_miles.v
         /\ HasOverride(p, p.elevation_gain_ft) => r.elevation = p.elevation_gain_ft.v
         /\ (~HasOverride(p, p.distance_miles) /\ ~c.raised
             /\ ~calcDistance(c.val).raised) =>
              r.distance = calcDistance(c.val).val
         /\ (~HasOverride(p, p.elevation_gain_ft) /\ ~c.raised
             /\ ~calcElevationGain(c.val).raised) =>
              r.elevation = calcElevationGain(c.val).val

\* C10: the result of a day file that was fetched and parsed has ok true and
\* no error; so in every result the error is set exactly when ok is false.
C10_ResolutionNeverFails ==
  \A i \in 1..Len(fetchState) :
    DayDone(i) =>
      /\ Parsed(i) => (loadResult[i].ok /\ loadResult[i].error.t = "null")
      /\ (loadResult[i].error.t # "null") <=> ~loadResult[i].ok

\* C14: the published day count is the number of day results with ok true;
\* it lies between 0 and the length of meta.days, and is lower than that
\* length exactly when some day result is not ok, which is exactly when the
\* fetch of some day failed.
C14_DayCountIsSuccessCount ==
  Loaded =>
    LET n == Cardinality(SuccessDays)
        len == Len(meta.days.a)
    IN /\ text.daysCount = ToString(n)
       /\ n \in 0..len
       /\ (n < len) <=> (\E i \in 1..Len(dayResults) : ~dayResults[i].ok)
       /\ (n < len) <=> (\E i \in 1..Len(dayResults) : FetchFailed(fetched[i]))

\* A loaded trip of three days of which exactly the second failed.
C14_Witness ==
  /\ Loaded
  /\ Len(meta.days.a) = 3
  /\ SuccessDays = {1, 3}
  /\ text.daysCount = "2"

\* The multiple of 10 nearest to x, the upper one when x lies half-way.
NearestTen(x) == CHOOSE e \in (x - 4)..(x + 5) : e % 10 = 0

\* C15: the published total distance is the sum of the distances of the ok
\* days rounded to one decimal (a multiple of 10 hundredths), the published
\* total elevation is the sum of their elevations rounded to the nearest 10,
\* a half upwards: a multiple of 10 at most 5 away from the sum, whatever
\* the overrides are.
C15_TotalsRounded ==
  Loaded =>
    LET sumD == SumDistanceOver(SuccessDays)
        sumE == SumElevationOver(SuccessDays)
        d == NearestTen(sumD)
        e == NearestTen(sumE)
    IN /\ text.totalDistance = NumberText(d) \o " mi"
       /\ text.totalElevation = formatNumber(e) \o " ft"
       /\ d % 10 = 0 /\ d - 5 <= sumD /\ sumD < d + 5
       /\ e % 10 = 0 /\ e - 5 <= sumE /\ sumE < e + 5

\* A loaded trip with a day whose elevation override is 1234, of which
\* neither sum is a multiple of 10.
C15_Witness ==
  /\ Loaded
  /\ \E i \in SuccessDays : dayResults[i].elevation = 1234
  /\ SumElevationOver(SuccessDays) % 10 # 0
  /\ SumDistanceOver(SuccessDays) % 10 # 0

\* meta.json was loaded and its days are absent, no array, or an empty array.
NoDayList == meta.t = "obj" /\ (meta.days.t # "arr" \/ meta.days.a = <<>>)
AllDaysFailed ==
  Loaded /\ \A i \in 1..Len(dayResults) : FetchFailed(fetched[i])

\* C16: with meta.days absent, not a list or empty, no day fetch is started,
\* the page reports that no day files are listed, and no total distance,
\* total elevation, day count or day row is published; with a non-empty list
\* of which every day failed, the totals "0 mi" and "0 ft" and the day
\* count "0" are published and no such report is made.
C16_NoDayListIsNotAllFailed ==
  /\ NoDayList =>
       /\ pc = "done"
       /\ fetchState = <<>> /\ fetched = <<>> /\ loadResult = <<>>
       /\ pageError.map = NoDayFilesMsg
       /\ text.totalDistance = "" /\ text.totalElevation = "" /\ text.daysCount = ""
       /\ dayTable = <<>>
  /\ AllDaysFailed =>
       /\ text.totalDistance = "0 mi"
       /\ text.totalElevation = "0 ft"
       /\ text.daysCount = "0"
       /\ Len(dayTable) = Len(meta.days.a)
       /\ pageError.map # NoDayFilesMsg

\* meta.json was loaded with days that are present but no array.
C16_Witness ==
  /\ NoDayList
  /\ meta.days = NotAnArray
  /\ pageError.map = NoDayFilesMsg
  /\ text.elapsed = "14d 7h 30m"

\* C17: the day number of the result of a parsed day file is the day of its
\* properties when the properties exist and their day is not null, and the
\* position of the file in meta.days, counted from 1, in every other case;
\* nothing else of the record or of the other days enters it.
C17_DayNumber ==
  \A i \in 1..Len(fetchState) :
    Parsed(i) =>
      LET p == OverrideProps(i)
      IN /\ (p.t = "obj" /\ p.day.t = "num") => loadResult[i].dayNumber = p.day.v
         /\ (p.t = "null" \/ p.day.t = "null") =>
              (loadResult[i].dayNumber = i /\ loadResult[i].index + 1 = i)

\* A loaded trip whose first day carries the day override 7, whose second
\* day has properties with a null day and whose third day has no properties.
C17_Witness ==
  /\ Loaded
  /\ Len(dayResults) = 3
  /\ fetched[1].body = GeoAllOverrides /\ dayResults[1].dayNumber = 7
  /\ fetched[2].body = GeoDistanceOnly /\ dayResults[2].dayNumber = 2
  /\ fetched[3].body = GeoComputed /\ dayResults[3].dayNumber = 3

\* What the load of day i returns, as a function of meta.days and of what
\* the fetch of that day delivered.
ExpectedResult(i) == FinishDay(NewResult(i - 1, meta.days.a[i]), fetched[i])
ExpectedResults == [i \in 1..Len(meta.days.a) |-> ExpectedResult(i)]

\* C18: what a run publishes is a function of meta and of the outcomes of
\* the day fetches alone: each collected value is the result of its own day
\* whichever days settled before it, and the day results, totals, day count
\* and day table of a loaded trip are those of the expected results, in
\* every order of completion and in every run after a reload.
C18_AggregationDeterministic ==
  /\ \A i \in 1..Len(fetchState) : DayDone(i) => promiseValues[i] = ExpectedResult(i)
  /\ Loaded =>
       /\ dayResults = ExpectedResults
       /\ text.totalDistance = TotalDistanceText(SumDistance(validDays(ExpectedResults)))
       /\ text.totalElevation = TotalElevationText(SumElevation(validDays(ExpectedResults)))
       /\ text.daysCount = ToString(Len(validDays(ExpectedResults)))
       /\ dayTable = buildDayTable(ExpectedResults)

\* A loaded trip of three days with three different outcomes, for which any
\* other order of the results would publish another table.
C18_Witness ==
  /\ Loaded
  /\ Len(dayResults) = 3
  /\ fetched[1] = Payload(GeoComputed)
  /\ fetched[2] = NetworkError
  /\ fetched[3] = Payload(GeoAllOverrides)
  /\ dayTable[1] # dayTable[3]
  /\ text.totalDistance = "15.1 mi"

\* The totals, the day count and one table row per day file are on the page.
TotalsPublished ==
  /\ pc = "done"
  /\ text.totalDistance # "" /\ text.totalElevation # "" /\ text.daysCount # ""
  /\ Len(dayResults) = Len(dayFiles)
  /\ Len(dayTable) = Len(dayFiles)

\* C20: once meta.json is loaded with a non-empty day list and the day
\* fetches are under way, then, every day fetch settling, the page comes to
\* show the totals, the day count and the day table, whichever days fail;
\* and no failure of a day takes initTripPage anywhere but to that point.
C20_TotalsEventuallyPublished ==
  /\ (pc = "loadDays") ~> TotalsPublished
  /\ [][pc = "loadDays" => pc' \in {"loadDays", "done"}]_vars

\* A loaded trip of three days: a record whose resolution threw, a response
\* with an error status, and a body that is no JSON; the totals are shown.
C20_Witness ==
  /\ TotalsPublished
  /\ Len(dayResults) = 3
  /\ fetched[1] = Payload(GeoNullFeature)
  /\ fetched[2].kind = "http"
  /\ fetched[3].kind = "parse"
  /\ dayResults[1].error.t = "str"
  /\ text.totalDistance = "0 mi"

\* The elapsed time of the loaded meta.json.
MetaElapsed ==
  calcElapsedTime(meta.start_date, meta.start_time, meta.end_date, meta.end_time)

\* C21: from the moment meta.json is loaded, and so in every state in which
\* a day fetch has been started, the page shows the elapsed time computed
\* from the start and end date and time of meta; this is so with an empty
\* or absent day list and when every day fails, and no step of the day
\* loads or of the aggregation changes it.
C21_ElapsedFromMetaOnly ==
  /\ [](meta.t = "obj" => (text.elapsed = MetaElapsed /\ text.elapsed # ""))
  /\ [](fetchState # <<>> => (meta.t = "obj" /\ text.elapsed = MetaElapsed))
  /\ [][pc = "loadDays" => text'.elapsed = text.elapsed]_vars

\* Every day of a loaded trip failed and the elapsed time is shown.
C21_Witness ==
  /\ AllDaysFailed
  /\ Len(dayResults) = MaxDays
  /\ text.elapsed = "14d 7h 30m"
  /\ text.totalDistance = "0 mi"

MetaErrorShown == pageError.meta # ""
MetaErrors ==
  {"Could not load trip metadata: " \o m :
     m \in {FetchFailedMsg, MetaJsonSyntaxMsg,
            "HTTP 404 fetching " \o DataRoot \o "/" \o TripId \o "/meta.json"}}

\* C22: a day fetch exists only once meta.json has been fetched and parsed;
\* when the fetch of meta.json rejects, answers with an error status or has
\* a body that is no JSON, the page shows the metadata error, initTripPage
\* is over, and no day fetch, elapsed time, total, day count or day row
\* exists then or later in that document.
C22_NoDayFetchWithoutMeta ==
  /\ [](fetchState # <<>> => (meta.t = "obj" /\ ~MetaErrorShown))
  /\ [](pc \in {"fetchMeta", "parseMeta"} => (fetchState = <<>> /\ fetched = <<>>))
  /\ [](MetaErrorShown =>
         /\ pageError.meta \in MetaErrors
         /\ pc = "done"
         /\ fetchState = <<>> /\ fetched = <<>> /\ dayResults = <<>>
         /\ text = NoText
         /\ dayTable = <<>>)
  /\ [][MetaErrorShown => (pc' = "fetchMeta" /\ ~MetaErrorShown')]_vars

\* The body of meta.json was no JSON.
C22_Witness ==
  /\ pc = "done"
  /\ pageError.meta = "Could not load trip metadata: " \o MetaJsonSyntaxMsg
  /\ text.elapsed = ""

\* No ok day of the loaded trip carries an elevation override.
NoElevationOverride ==
  \A i \in SuccessDays :
    ~HasOverride(OverrideProps(i), OverrideProps(i).elevation_gain_ft)

\* C24: when no ok day has an elevation override, the elevation of every ok
\* day is a multiple of 10 and is what its table row shows, and the
\* published total elevation is the exact sum of these elevations: the
\* rounding of the total changes nothing.
C24_NoDriftWithoutOverrides ==
  (Loaded /\ NoElevationOverride) =>
    /\ \A i \in SuccessDays :
         /\ dayResults[i].elevation % 10 = 0
         /\ dayTable[i].elevation = "+" \o formatNumber(dayResults[i].elevation) \o " ft"
    /\ text.totalElevation = formatNumber(SumElevationOver(SuccessDays)) \o " ft"

\* A loaded trip of three ok days without elevation override, two of them
\* with a gain computed from the track.
C24_Witness ==
  /\ Loaded
  /\ NoElevationOverride
  /\ SuccessDays = {1, 2, 3}
  /\ fetched[1].body = GeoComputed
  /\ fetched[2].body = GeoDistanceOnly
  /\ dayResults[1].elevation = 920
  /\ text.totalElevation = "1,840 ft"

LineKinds == {"LineString", "MultiLineString"}
NoLineGeometry(geometry) == geometry.t = "null" \/ geometry.type \notin LineKinds

\* A parsed record none of whose geometries is a line: a collection of
\* features, a single feature, or a bare geometry.
RecordWithoutLine(g) ==
  /\ g.t = "obj"
  /\ IF g.type = "FeatureCollection"
     THEN /\ g.features.t = "arr"
          /\ \A k \in 1..Len(g.features.a) :
               /\ g.features.a[k].t = "obj"
               /\ NoLineGeometry(g.features.a[k].geometry)
     ELSE IF g.type = "Feature" THEN NoLineGeometry(g.geometry)
     ELSE g.type \notin LineKinds

NoOverrides(p) ==
  ~HasOverride(p, p.distance_miles) /\ ~HasOverride(p, p.elevation_gain_ft)

\* C11: a fetched and parsed record whose geometry is missing, null or not a
\* LineString/MultiLineString gives an empty track and no error; without
\* overrides its day is ok with distance 0 and elevation 0, and is one of
\* the days the published day count counts.
C11_NoTrackIsNotAnError ==
  /\ \A i \in 1..Len(fetchState) :
       (Parsed(i) /\ RecordWithoutLine(fetched[i].body)) =>
         /\ ~TrackOf(i).raised
         /\ TrackOf(i).val = Arr(<<>>)
         /\ loadResult[i].error.t = "null"
         /\ loadResult[i].ok
         /\ NoOverrides(OverrideProps(i)) =>
              (loadResult[i].distance = 0 /\ loadResult[i].elevation = 0)
  /\ Loaded =>
       /\ \A i \in 1..Len(dayResults) :
            (fetched[i].kind = "json" /\ RecordWithoutLine(fetched[i].body)) =>
              i \in SuccessDays
       /\ text.daysCount = ToString(Cardinality(SuccessDays))

\* A loaded trip of three days: a feature with a null geometry, a
\* collection whose feature is a MultiPoint, and a bare Point.
C11_Witness ==
  /\ Loaded
  /\ Len(dayResults) = 3
  /\ fetched[1].body = GeoNullGeometry
  /\ fetched[2].body = GeoMultiPoint
  /\ fetched[3].body = GeoNoTrack
  /\ text.daysCount = "3"
  /\ text.totalDistance = "0 mi"

(***************************************************************************)
(* Properties of calcElapsedTime.                                          *)
(***************************************************************************)
StartInstant == NewDate(elCall.startDate, OrMidnight(elCall.startTime))
EndInstant == NewDate(elCall.endDate, OrMidnight(elCall.endTime))
BothValid == ~StartInstant.nan /\ ~EndInstant.nan
\* The longest span between two of the dates drawn, in days.
MaxSpanDays == 16

\* "14d 7h 30m" from its components, the zero ones left out.
DurationText(d, h, m) ==
  (IF d > 0 THEN ToString(d) \o "d" ELSE "")
  \o (IF d > 0 /\ (h > 0 \/ m > 0) THEN " " ELSE "")
  \o (IF h > 0 THEN ToString(h) \o "h" ELSE "")
  \o (IF h > 0 /\ m > 0 THEN " " ELSE "")
  \o (IF m > 0 THEN ToString(m) \o "m" ELSE "")

\* Every string made of positive components only.
PositiveDurations ==
  {DurationText(d, h, m) : d \in 0..MaxSpanDays, h \in 0..23, m \in 0..59} \ {""}

\* C5: for a start or end that does not parse to a valid instant,
\* calcElapsedTime returns the dash.
C5_MalformedGivesDash ==
  (elCall.called /\ ~BothValid) => elCall.ret = Dash

\* C6: for two valid instants with the end equal to or before the start,
\* calcElapsedTime returns the dash; and whatever it returns is a sentinel or
\* a string of strictly positive components.
C6_NotAfterStartGivesDash ==
  elCall.called =>
    /\ (BothValid /\ EndInstant.v <= StartInstant.v) => elCall.ret = Dash
    /\ elCall.ret \in {Dash, LessThanMinute} \cup PositiveDurations

\* Called with an end instant equal to the start instant.
C6_Witness ==
  /\ elCall.called
  /\ BothValid
  /\ EndInstant.v = StartInstant.v
  /\ elCall.startTime = TimeOk(7, 0, 30)
  /\ elCall.ret = Dash

\* C7: for a positive difference of M whole minutes, the result is made of
\* d = M div 1440, h = (M mod 1440) div 60 and m = M mod 60, the non-zero
\* ones in this order joined by single spaces, and is never empty; from
\* 2024-06-01 07:00 to 2024-06-15 14:30 it is "14d 7h 30m".
WholeMinutes == (EndInstant.v - StartInstant.v) \div 60
C7_ComponentsOfWholeMinutes ==
  /\ (elCall.called /\ BothValid /\ EndInstant.v > StartInstant.v
      /\ (EndInstant.v - StartInstant.v) % 60 = 0) =>
       LET M == WholeMinutes
           d == M \div 1440
           h == (M % 1440) \div 60
           m == M % 60
       IN /\ d * 1440 + h * 60 + m = M
          /\ h \in 0..23 /\ m \in 0..59
          /\ elCall.ret = DurationText(d, h, m)
          /\ elCall.ret # ""
  /\ (elCall.called /\ elCall.startDate = June1 /\ elCall.startTime = TimeOk(7, 0, 0)
      /\ elCall.endDate = June15 /\ elCall.endTime = TimeOk(14, 30, 0)) =>
       elCall.ret = "14d 7h 30m"
  /\ (elCall.called /\ elCall.startDate = May31 /\ elCall.startTime = UndefTime
      /\ elCall.endDate = June1 /\ elCall.endTime = TimeOk(9, 0, 0)) =>
       elCall.ret = "1d 9h"

\* Called on the example of the documentation.
C7_Witness ==
  /\ elCall.called
  /\ elCall.startDate = June1 /\ elCall.startTime = TimeOk(7, 0, 0)
  /\ elCall.endDate = June15 /\ elCall.endTime = TimeOk(14, 30, 0)
  /\ WholeMinutes = 14 * 1440 + 7 * 60 + 30

(***************************************************************************)
(* Properties of calcDistance and calcElevationGain.                       *)
(***************************************************************************)
NoNullEntry(a) == \A i \in 1..Len(a) : a[i].t = "pt"
Numeric(e) == e.t = "num"

\* The pairs of consecutive points that both carry a numeric elevation and
\* of which the second is higher.
ClimbPairs(a) ==
  {i \in 2..Len(a) : Numeric(a[i - 1].ele) /\ Numeric(a[i].ele)
                     /\ a[i].ele.v > a[i - 1].ele.v}
RECURSIVE SumClimbs(_, _)
SumClimbs(a, S) ==
  IF S = {} THEN 0
  ELSE LET i == CHOOSE x \in S : TRUE
       IN (a[i].ele.v - a[i - 1].ele.v) + SumClimbs(a, S \ {i})

ElevationsOf(a) == [i \in 1..Len(a) |-> a[i].ele]

\* C8: the elevation gain of a track is the sum of the positive elevation
\* differences of the consecutive pairs whose two points carry a numeric
\* elevation, times 3.28084, rounded to the nearest 10 feet; it is 920 for
\* the elevations 2100, 2210, 2380.
C8_GainIsSumOfClimbs ==
  (trCall.gainCalled /\ NoNullEntry(trCall.coords.a)) =>
    LET a == trCall.coords.a
        metres == SumClimbs(a, ClimbPairs(a))
    IN /\ ~trCall.gain.raised
       /\ trCall.gain.val = 10 * ((metres * 328084 + 500000) \div 1000000)
       /\ ElevationsOf(a) = <<Num(2100), Num(2210), Num(2380)>> =>
            trCall.gain.val = 920

\* The gain of a track that first descends and then climbs has been computed.
C8_Witness ==
  /\ trCall.gainCalled
  /\ ElevationsOf(trCall.coords.a) = <<Num(2210), Num(2100), Num(2380)>>
  /\ trCall.gain.val = 920

\* C19: the gain of a track is at least the gain of the track without its
\* last point, whether that point is higher, lower or without a numeric
\* elevation.
C19_AppendNeverReducesGain ==
  (trCall.gainCalled /\ trCall.coords.t = "arr" /\ Len(trCall.coords.a) >= 1
   /\ NoNullEntry(trCall.coords.a)) =>
    LET a == trCall.coords.a
        T == Arr(SubSeq(a, 1, Len(a) - 1))
    IN /\ ~trCall.gain.raised
       /\ ~calcElevationGain(T).raised
       /\ calcElevationGain(T).val <= trCall.gain.val

\* The gain of a climb of 280 m followed by a point without elevation: the
\* 920 ft of the climb are kept.
C19_Witness ==
  /\ trCall.gainCalled
  /\ ElevationsOf(trCall.coords.a) = <<Num(2100), Num(2380), NullNum>>
  /\ calcElevationGain(Arr(SubSeq(trCall.coords.a, 1, 2))).val = 920
  /\ trCall.gain.val = 920

\* C9: for an absent, empty or one-point coordinate array calcDistance and
\* calcElevationGain both return 0.
C9_ShortTrackIsZero ==
  Len(trCall.coords.a) < 2 =>
    /\ trCall.distCalled => (~trCall.dist.raised /\ trCall.dist.val = 0)
    /\ trCall.gainCalled => (~trCall.gain.raised /\ trCall.gain.val = 0)

\* Both functions have been called on an absent array.
C9_Witness ==
  /\ trCall.distCalled /\ trCall.gainCalled
  /\ trCall.coords.t = "null"

(***************************************************************************)
(* Properties of extractCoords and loadDayGeoJSON on one day file.         *)
(***************************************************************************)
\* The path of a geometry: its points when it is a line, none otherwise.
PathOf(geometry) ==
  IF NoLineGeometry(geometry) THEN <<>>
  ELSE IF geometry.type = "LineString" THEN geometry.coordinates.a
  ELSE Flat(geometry.lines.a)

IsCollection(g) ==
  g.t = "obj" /\ g.type = "FeatureCollection" /\ g.features.t = "arr"
AllObjects(fs) == \A k \in 1..Len(fs) : fs[k].t = "obj"
\* The positions of the features whose geometry has a non-empty path.
TrackFeatures(fs) == {k \in 1..Len(fs) : fs[k].t = "obj" /\ PathOf(fs[k].geometry) # <<>>}
Least(S) == CHOOSE k \in S : \A j \in S : k <= j

\* C12: for a feature collection, the day number, distance and elevation of
\* the result follow the properties of the first feature with a line
\* geometry, the feature that supplies the track, whatever its position in
\* the collection.
C12_PropsOfTrackFeature ==
  (dyCall.loaded /\ IsCollection(dyCall.geojson)
   /\ AllObjects(dyCall.geojson.features.a)
   /\ TrackFeatures(dyCall.geojson.features.a) # {}) =>
    LET fs == dyCall.geojson.features.a
        k == Least(TrackFeatures(fs))
        p == fs[k].properties
        track == Arr(PathOf(fs[k].geometry))
        r == dyCall.result
    IN /\ r.dayNumber = IF HasOverride(p, p.day) THEN p.day.v ELSE dyCall.index + 1
       /\ r.distance = IF HasOverride(p, p.distance_miles) THEN p.distance_miles.v
                       ELSE calcDistance(track).val
       /\ r.elevation = IF HasOverride(p, p.elevation_gain_ft) THEN p.elevation_gain_ft.v
                        ELSE calcElevationGain(track).val

\* C13: for a feature collection extractCoords returns the path of the first
\* feature, in list order, whose geometry has a non-empty path: the features
\* before it (geometry missing, not a line, or a line without points) are
\* skipped and the features after it are not looked at; when no feature has
\* a path, or the collection has no feature list, the result is empty.
C13_FirstNonEmptyTrack ==
  (dyCall.coordsCalled /\ dyCall.geojson.t = "obj"
   /\ dyCall.geojson.type = "FeatureCollection") =>
    LET fs == dyCall.geojson.features.a
        S == TrackFeatures(fs)
        c == dyCall.coords
    IN /\ (S # {} /\ \A j \in 1..(Least(S) - 1) : fs[j].t = "obj") =>
            (~c.raised /\ c.val = Arr(PathOf(fs[Least(S)].geometry)))
       /\ (S = {} /\ AllObjects(fs)) => (~c.raised /\ c.val = Arr(<<>>))

\* extractCoords was called on a collection of a line without points, the
\* two-point track and the three-point track: it returned the two-point one.
C13_Witness ==
  /\ dyCall.coordsCalled
  /\ IsCollection(dyCall.geojson)
  /\ Len(dyCall.geojson.features.a) = 3
  /\ dyCall.geojson.features.a[1].geometry = LineString(<<>>)
  /\ dyCall.geojson.features.a[2].geometry = LineString(TrackB)
  /\ dyCall.geojson.features.a[3].geometry = LineString(TrackA)
  /\ dyCall.coords.val = Arr(TrackB)

(***************************************************************************)
(* The homepage against the trip page.                                     *)
(***************************************************************************)
\* computeTripData ran on a meta.json with a non-empty day list.
HomeLoadedDays ==
  /\ homeCard.called /\ ~homeCard.rejected /\ homeCard.error.t = "null"
  /\ meta.t = "obj" /\ ServedDays(meta) > 0

\* C23: for the same meta.json and the same outcomes of the day fetches,
\* the total distance and total elevation of the homepage are those the
\* trip page publishes, and a day is ok for the one exactly when it is ok
\* for the other.
C23_HomepageEqualsTripPage ==
  HomeLoadedDays =>
    LET trip == ExpectedResults
        valid == validDays(trip)
    IN /\ homeCard.totalDistance = Num(MathRound(SumDistance(valid), 10) * 10)
       /\ homeCard.totalElevation = Num(MathRound(SumElevation(valid), 10) * 10)
       /\ Len(homeCard.dayResults) = Len(trip)
       /\ \A i \in 1..Len(trip) : homeCard.dayResults[i].ok = trip[i].ok

====
